---- MODULE Spec2Model ----
(***************************************************************************)
(* Model of the document-scanning front end (third-law-ui).                *)
(*                                                                         *)
(*  - ProcessedFilesTable: the chunked document table (fetchDocuments,     *)
(*    handlePageChange, handleLastPage, handlePageSizeChange, the          *)
(*    useEffect on currentChunk, the Refresh button).                      *)
(*  - UploadSection / Home: file selection, upload, session history.       *)
(*                                                                         *)
(* React state is modelled after the batched commit of a handler: one      *)
(* action is one event handler (or one continuation of an async handler    *)
(* after an await) together with the effects React runs after the commit.  *)
(***************************************************************************)
EXTENDS Integers, Sequences, FiniteSets, TLC

VARIABLES
    \* ---- ProcessedFilesTable state (useState hooks) ----
    localDocuments,     \* cached chunk: sequence of document ids
    currentChunk,       \* 0-indexed chunk number
    hasMoreDocuments,   \* heuristic "more chunks" flag
    loadingMore,        \* guard flag of boundary loads / last-page probe
    loading,            \* TRUE => the loading view replaces the table
    error,              \* "none" or the banner kind
    currentPage,        \* 1-indexed page inside the cached chunk
    pageSize,           \* 5 / 10 / 25 / 50
    \* ---- environment of the table ----
    inflight,           \* listing operations awaiting a response, in issue order
    serverTotal,        \* number of documents the backend currently lists
    \* ---- observation (history) variables ----
    ev,                 \* the handler / continuation that ran last
    navGoal,            \* chunk a boundary navigation is heading for
    clicks,             \* user actions on the table so far
    lastFetchCount,     \* records in the latest installed listing response, -1 before any
    failed,             \* a listing request has failed since the last click that sends
    lastPageGoal,       \* the undisturbed "Last page" operation under way, if any
    staleInstall,       \* the last step installed the response of a request issued
                        \* before the request whose response the step before installed
    \* ---- UploadSection / Home state ----
    file,               \* retained file or NoFile
    uploading,
    response,           \* ApiResponse shown by ResponseDisplay, or NoResponse
    uploadInflight,     \* upload requests awaiting a response
    processedFiles,     \* session history, newest first
    selectedFile,       \* entry shown as selected, or NoEntry
    uev,                \* the upload handler / continuation that ran last
    received,           \* the latest reply of POST /api/proxy read by handleUpload
    \* ---- relay endpoints (POST /api/proxy, GET /api/documents) ----
    backendUrl,         \* process.env.BACKEND_URL
    relayCalls,         \* the requests the relay has received, in arrival order
    backendRequests,    \* the requests the relay has issued to the backend
    \* ---- FindingsList ----
    findings,           \* the finding types of the response shown, in order
    summary             \* the entries of the "Types of sensitive data found" line

tableVars == <<localDocuments, currentChunk, hasMoreDocuments, loadingMore,
               loading, error, currentPage, pageSize, inflight, serverTotal,
               ev, navGoal, clicks, lastFetchCount, failed, lastPageGoal,
               staleInstall>>
uploadVars == <<file, uploading, response, uploadInflight, processedFiles,
                selectedFile, uev, received>>
relayVars == <<backendUrl, relayCalls, backendRequests>>
findingsVars == <<findings, summary>>
vars == <<localDocuments, currentChunk, hasMoreDocuments, loadingMore,
          loading, error, currentPage, pageSize, inflight, serverTotal,
          ev, navGoal, clicks, lastFetchCount, failed, lastPageGoal, staleInstall, file, uploading, response, uploadInflight,
          processedFiles, selectedFile, uev, received, backendUrl, relayCalls,
          backendRequests, findings, summary>>

----------------------------------------------------------------------------
\* Bounds of the model

\* listing operations that may be awaiting a response at the same time
MaxInFlight == 2

\* user actions on the table in one session
MaxClicks == 4

\* cap on the session history length
MaxHistory == 3

\* requests the relay receives in one run
MaxRelayCalls == 2

\* findings in one response
MaxFindings == 4

\* user actions on the table in the runs checked for termination
MaxFairClicks == 3

\* document counts the backend may hold: below one page, two pages, several
\* chunks, a short page at the probe's start offset, a full page there
TotalChoices == {3, 8, 230, 1003, 1100}

----------------------------------------------------------------------------
\* Program constants

ChunkSize == 100

ProbeStart == 1000

ProbeStep == 100

PageSizes == {5, 10, 25, 50}

InitialPageSize == 5

maxVisiblePages == 5

Ellipsis == 0

----------------------------------------------------------------------------
\* Arithmetic helpers standing for the JavaScript built-ins used by the code

Min(a, b) == IF a <= b THEN a ELSE b

Max(a, b) == IF a >= b THEN a ELSE b

\* Math.ceil(a / b) for a >= 0, b > 0
Ceil(a, b) == (a + b - 1) \div b

\* Math.floor(a / b) for a >= 0, b > 0
Floor(a, b) == a \div b

\* Array.prototype.slice(start, end) for 0 <= start, 0 <= end (0-indexed,
\* end exclusive, both clamped to the length)
Slice(s, start, end) == SubSeq(s, Min(start, Len(s)) + 1, Min(end, Len(s)))

----------------------------------------------------------------------------
\* Backend listing: GET /api/documents?offset&limit relayed to the backend.
\* Documents are identified by their position in the backend's list.

ListDocuments(total, offset, limit) ==
    [i \in 1..Max(0, Min(limit, total - offset)) |-> offset + i]

\* what a listing request can come back with: a 200 JSON body (with or
\* without a documents field), a non-OK status, a rejected fetch, or a body
\* that does not parse
Outcomes == {"ok", "ok_nodocs", "http_error", "network_error", "parse_error"}

IsOk(outcome) == outcome \in {"ok", "ok_nodocs"}

\* data.documents || []
DocumentsOf(outcome, total, offset, limit) ==
    IF outcome = "ok" THEN ListDocuments(total, offset, limit) ELSE <<>>

----------------------------------------------------------------------------
\* Derived values of a render of ProcessedFilesTable

totalDocuments == Len(localDocuments)

totalPages == Ceil(totalDocuments, pageSize)

startItem == IF totalDocuments > 0 THEN (currentPage - 1) * pageSize + 1 ELSE 0

endItem == Min(currentPage * pageSize, totalDocuments)

\* (mutant) the slice starts one page too far
PageDocumentsShifted(page) ==
    Slice(localDocuments, page * pageSize, (page + 1) * pageSize)

PageDocuments(page) ==
    Slice(localDocuments, (page - 1) * pageSize, page * pageSize)

currentPageDocuments == PageDocuments(currentPage)

\* which of the three views the component returns
View == IF loading THEN "loading" ELSE IF error # "none" THEN "error" ELSE "table"

\* the gate around the pagination controls
ControlsShown == View = "table" /\ totalDocuments > 0 /\ totalPages > 1

\* the Refresh button exists in the error view and in the table view
RefreshShown == View \in {"error", "table"}


\* (mutant) the window around the current page is used at the ends too
getPageNumbersAlwaysWindowed ==
    IF totalPages <= maxVisiblePages
    THEN [i \in 1..totalPages |-> i]
    ELSE <<1, Ellipsis, currentPage - 1, currentPage, currentPage + 1,
           Ellipsis, totalPages>>

\* Generate page numbers with ellipsis (Ellipsis stands for the '...' entry)
getPageNumbers ==
    IF totalPages <= maxVisiblePages
    THEN [i \in 1..totalPages |-> i]
    ELSE IF currentPage <= 3
         THEN <<1, 2, 3, 4, Ellipsis, totalPages>>
         ELSE IF currentPage >= totalPages - 2
              THEN <<1, Ellipsis, totalPages - 3, totalPages - 2,
                     totalPages - 1, totalPages>>
              ELSE <<1, Ellipsis, currentPage - 1, currentPage,
                     currentPage + 1, Ellipsis, totalPages>>

\* the page arguments the enabled buttons of the pagination bar pass to
\* handlePageChange: first, previous, the numbered buttons, next
OfferedPages ==
    (IF currentPage # 1 THEN {1, currentPage - 1} ELSE {})
    \cup ({getPageNumbers[i] : i \in DOMAIN getPageNumbers} \ {Ellipsis})
    \cup (IF currentPage # totalPages THEN {currentPage + 1} ELSE {})

\* the "Last page" button is enabled
LastPageEnabled == ControlsShown /\ currentPage # totalPages /\ ~loadingMore

----------------------------------------------------------------------------
\* Listing operations in flight

NoSnap == [taken |-> FALSE, first |-> 0, count |-> 0, chunk |-> 0,
           hasMore |-> FALSE, page |-> 0, pageSize |-> 0]

\* first record of a document list (0 for the empty list)
FirstOf(documents) == IF documents = <<>> THEN 0 ELSE documents[1]

\* the table state a user action starts from; the cached chunk is noted by
\* its first record and its length
Snapshot == [taken |-> TRUE, first |-> FirstOf(localDocuments),
             count |-> Len(localDocuments), chunk |-> currentChunk,
             hasMore |-> hasMoreDocuments, page |-> currentPage,
             pageSize |-> pageSize]

\* fetch(`/api/documents?offset=${chunkOffset}&limit=100`)
ChunkRequest(chunkOffset, by, snap) ==
    [kind |-> "chunk", offset |-> chunkOffset, limit |-> ChunkSize,
     pageSize |-> 0, chunk |-> 0, by |-> by, snap |-> snap]

\* fetch(`/api/documents?offset=${offset}&limit=${pageSize}`) of the probe
\* loop; pageSize and currentChunk are the values the handler closed over
ProbeRequest(offset, size, chunk) ==
    [kind |-> "probe", offset |-> offset, limit |-> size,
     pageSize |-> size, chunk |-> chunk, by |-> "last", snap |-> NoSnap]

\* (mutant) the loop asks for the same offset again
NextProbeAtSameOffset(req) == ProbeRequest(req.offset, req.pageSize, req.chunk)

\* (mutant) the next probe reads the page size afresh
NextProbeAtCurrentPageSize(req) ==
    ProbeRequest(req.offset + ProbeStep, pageSize, req.chunk)

\* offset += 100 and the next turn of the loop: pageSize is the value the
\* handler closed over
NextProbe(req) == ProbeRequest(req.offset + ProbeStep, req.pageSize, req.chunk)

\* Math.max(0, (currentChunk + 1) * 100 - pageSize)
LastPageOffset(chunk, size) == Max(0, (chunk + 1) * ChunkSize - size)

FallbackRequest(size, chunk) ==
    [kind |-> "fallback", offset |-> LastPageOffset(chunk, size), limit |-> size,
     pageSize |-> size, chunk |-> chunk, by |-> "last", snap |-> NoSnap]

Remove(s, i) == SubSeq(s, 1, i - 1) \o SubSeq(s, i + 1, Len(s))

Replace(s, i, x) == [s EXCEPT ![i] = x]

NoGoal == [active |-> FALSE, chunk |-> 0]

NoLastPageGoal == [active |-> FALSE, first |-> 0, count |-> 0, pageSize |-> 0,
                   total |-> 0, overshot |-> FALSE, done |-> FALSE]

\* a "Last page" operation started with nothing else pending: the chunk cached
\* at the click (first record and length), the page size and the server list
StartedLastPageGoal ==
    [active |-> TRUE, first |-> FirstOf(localDocuments),
     count |-> Len(localDocuments), pageSize |-> pageSize,
     total |-> serverTotal, overshot |-> FALSE, done |-> FALSE]

Event(op, n, outcome) == [op |-> op, n |-> n, outcome |-> outcome]

\* (mutant) the next offset computed from the page size
NextChunkOffsetByPageSize == (currentChunk + 1) * pageSize

\* (currentChunk + 1) * 100
NextChunkOffset == (currentChunk + 1) * ChunkSize

\* (mutant) the new records are appended to the cached ones
AppendLocalDocuments(previous, documents) == previous \o documents

\* setLocalDocuments(...): the cached chunk is replaced, whatever it held
SetLocalDocuments(previous, documents) == documents

\* (mutant) the upper bound is not checked
PageInRangeNoUpperBound(page) == page >= 1

\* page >= 1 && page <= totalPages
PageInRange(page) == page >= 1 /\ page <= totalPages

----------------------------------------------------------------------------
\* UploadSection / Home: values

PdfType == "application/pdf"

\* e.target.files?.[0] is undefined for an empty selection
NoFile == [name |-> "", type |-> "undefined"]

\* what the file picker can hand to handleFileChange
Selections ==
    {NoFile,
     [name |-> "a.pdf", type |-> PdfType],
     [name |-> "b.pdf", type |-> PdfType],
     [name |-> "notes.txt", type |-> "text/plain"],
     [name |-> "blob", type |-> ""]}

NoResponse == [status |-> "none", error |-> "", document_id |-> "", findings |-> 0]

\* { status: 'error', error: 'Please select a valid PDF file' }
ValidationError ==
    [status |-> "error", error |-> "Please select a valid PDF file",
     document_id |-> "", findings |-> 0]

\* { status: 'error', error: error.message } of handleUpload's catch
ThrownError ==
    [status |-> "error", error |-> "Error uploading file",
     document_id |-> "", findings |-> 0]

\* JSON bodies POST /api/proxy can answer with: the backend's success body
\* (with or without findings), the backend's error body, and the relay's own
\* error envelope, which has no status field
UploadBodies ==
    {[status |-> "success", error |-> "", document_id |-> "doc", findings |-> 0],
     [status |-> "success", error |-> "", document_id |-> "doc", findings |-> 2],
     [status |-> "error", error |-> "backend", document_id |-> "", findings |-> 0],
     [status |-> "undefined", error |-> "Error processing request",
      document_id |-> "", findings |-> 0]}

\* the relay's own { error: 'Error processing request' }, status 500
RelayEnvelope ==
    [status |-> "undefined", error |-> "Error processing request",
     document_id |-> "", findings |-> 0]

\* replies of POST /api/proxy as handleUpload reads them: the relay answers
\* 200 with whatever JSON the backend sent, or 500 with its own envelope
UploadReplies ==
    {[http |-> 200, body |-> b] : b \in UploadBodies}
    \cup {[http |-> 500, body |-> RelayEnvelope]}

NoReply == [http |-> 0, body |-> NoResponse]

NoEntry == [id |-> 0, name |-> "", status |-> "none", findings |-> 0,
            documentId |-> ""]

UploadEvent(op, sel, outcome) == [op |-> op, sel |-> sel, outcome |-> outcome]

\* (mutant) any chosen file is accepted
IsAnySelection(sel) == sel # NoFile

\* selectedFile && selectedFile.type === 'application/pdf'
IsPdfSelection(sel) == sel # NoFile /\ sel.type = PdfType

\* (mutant) the button stays enabled during an upload
UploadButtonEnabledWhileUploading == file # NoFile

\* disabled={!file || uploading} of the submit button
UploadButtonEnabled == file # NoFile /\ ~uploading

\* what ResponseDisplay renders for a response
Panel(r) == IF r.status = "error" THEN "error" ELSE "success"

\* (mutant) a reply with a non-OK HTTP status is thrown like a failed fetch
ShownResponseCheckingOk(reply) ==
    IF reply.http = 200 THEN reply.body
    ELSE [status |-> "error", error |-> "Error uploading file",
          document_id |-> "", findings |-> 0]

\* const data = await response.json(); setResponse(data): response.ok and
\* response.status are never read
ShownResponse(reply) == reply.body

----------------------------------------------------------------------------
\* Relay endpoints: values

\* a URL as the parts the relay's URL arithmetic touches
Url(origin, path, query) == [origin |-> origin, path |-> path, query |-> query]

\* process.env.BACKEND_URL is undefined (or empty)
Unset == Url("", "", "")

\* BACKEND_URL="https://api.example.com"
ExampleUrl == Url("https://api.example.com", "", "")

\* values BACKEND_URL may hold: unset, an origin, an origin with a path
\* prefix, a host name without a scheme
BackendUrls ==
    {Unset,
     ExampleUrl,
     Url("https://api.example.com", "/base", ""),
     Url("", "api.example.com", "")}

\* (mutant) the configuration check is skipped
IsConfiguredAlways(base) == TRUE

\* !backendUrl is false
IsConfigured(base) == base # Unset

\* new URL(path, base) throws a TypeError for a base that is not absolute
IsAbsolute(base) == base.origin # ""

\* new URL(path, base) for a path that starts with "/": the path replaces
\* the whole path of the base
ResolveUrl(path, base) == Url(base.origin, path, "")

\* `${documentsUrl}?offset=${offset}&limit=${limit}`
WithQuery(url, offset, limit) ==
    Url(url.origin, url.path, "offset=" \o offset \o "&limit=" \o limit)

\* searchParams.get(name) || fallback ("" stands for an absent parameter)
ParamOr(value, fallback) == IF value = "" THEN fallback ELSE value

\* query strings GET /api/documents is called with
Queries == {[offset |-> "", limit |-> ""], [offset |-> "1000", limit |-> "5"]}

\* JSON bodies, as far as the relay can tell them apart
Json(message, data) == [error |-> message, data |-> data]

NoBody == Json("", "")

\* JSON bodies the backend answers with
BackendBodies == {Json("", "result"), Json("backend failure", "")}

\* HTTP statuses the backend answers with
BackendStatuses == {200, 500}

\* what can go wrong while forwarding: fetch rejects, or the backend's body
\* is not JSON
Failures == {"network", "parse"}

\* { error: 'Backend URL is not configured' }
ConfigurationError == Json("Backend URL is not configured", "")

\* (mutant) the caught error's message is passed on
FailureBodyWithDetail(endpoint, failure) == Json(failure, "")

\* the catch blocks: the body does not depend on what was caught
FailureBody(endpoint, failure) ==
    IF endpoint = "proxy"
    THEN Json("Error processing request", "")
    ELSE Json("Error fetching documents", "")

\* (mutant) the backend's status is passed on
ReplyStatusOfBackend(backendStatus) == backendStatus

\* NextResponse.json(data): no status option, hence 200
ReplyStatus(backendStatus) == 200

\* the backend path of an endpoint
BackendPath(endpoint) ==
    IF endpoint = "proxy" THEN "/api/v1/upload" ELSE "/api/v1/documents"

BackendMethod(endpoint) == IF endpoint = "proxy" THEN "POST" ELSE "GET"

\* a request the relay has received and what became of it
RelayCall(endpoint, env, state, status, body, backendStatus, backendBody, failure) ==
    [endpoint |-> endpoint, env |-> env, state |-> state, status |-> status,
     body |-> body, backendStatus |-> backendStatus, backendBody |-> backendBody,
     failure |-> failure]

\* fetch(url, { method, ... }) as the backend sees it
BackendRequest(call, method, url) == [call |-> call, method |-> method, url |-> url]

----------------------------------------------------------------------------
Init ==
    /\ localDocuments = <<>>
    /\ currentChunk = 0
    /\ hasMoreDocuments = TRUE
    /\ loadingMore = FALSE
    /\ loading = TRUE
    /\ error = "none"
    /\ currentPage = 1
    /\ pageSize = InitialPageSize
    \* the mount effect has called fetchDocuments()
    /\ inflight = <<ChunkRequest(0, "mount", NoSnap)>>
    /\ serverTotal \in TotalChoices
    /\ ev = Event("mount", 0, "none")
    /\ navGoal = NoGoal
    /\ lastPageGoal = NoLastPageGoal
    /\ staleInstall = FALSE
    /\ clicks = 0
    /\ lastFetchCount = -1
    /\ failed = FALSE
    /\ file = NoFile
    /\ uploading = FALSE
    /\ response = NoResponse
    /\ uploadInflight = <<>>
    /\ processedFiles = <<>>
    /\ selectedFile = NoEntry
    /\ uev = UploadEvent("mount", NoFile, "none")
    /\ received = NoReply
    /\ backendUrl = ExampleUrl
    /\ relayCalls = <<>>
    /\ backendRequests = <<>>
    /\ findings = <<>>
    /\ summary = <<>>

----------------------------------------------------------------------------
\* ProcessedFilesTable

\* useEffect(() => { fetchDocuments(); }, [currentChunk]) run after a commit
\* that set currentChunk to newChunk; rest is the in-flight list after the
\* handler, settledLoading the loading flag the handler itself left
ChunkEffect(newChunk, rest, settledLoading) ==
    IF newChunk # currentChunk
    THEN /\ loading' = TRUE
         /\ error' = "none"
         /\ inflight' = Append(rest, ChunkRequest(0, "effect", NoSnap))
    ELSE /\ loading' = settledLoading
         /\ error' = error
         /\ inflight' = rest

\* onClick={() => fetchDocuments()} of the Refresh button
Refresh ==
    /\ UNCHANGED <<uploadVars, relayVars, findingsVars>>
    /\ staleInstall' = FALSE
    /\ RefreshShown
    /\ Len(inflight) < MaxInFlight
    /\ clicks < MaxClicks
    /\ clicks' = clicks + 1
    /\ lastFetchCount' = lastFetchCount
    /\ loading' = TRUE
    /\ error' = "none"
    /\ inflight' = Append(inflight, ChunkRequest(0, "refresh", Snapshot))
    /\ ev' = Event("refresh", 0, "none")
    /\ failed' = FALSE
    /\ navGoal' = NoGoal
    /\ lastPageGoal' = NoLastPageGoal
    /\ UNCHANGED <<localDocuments, currentChunk, hasMoreDocuments, loadingMore,
                   currentPage, pageSize, serverTotal>>

\* (mutant) a response is dropped unless its request is the newest pending
AcceptedIfNewest(i, outcome) == IsOk(outcome) /\ i = Len(inflight)

\* the try block of fetchDocuments runs to its end: nothing compares the
\* response with the requests issued since
Accepted(i, outcome) == IsOk(outcome)

\* the continuation of fetchDocuments after its awaits
FetchDocumentsDone(i, outcome) ==
    LET req == inflight[i]
        docs == DocumentsOf(outcome, serverTotal, req.offset, req.limit)
        rest == Remove(inflight, i)
    IN  /\ req.kind = "chunk"
        /\ ev' = Event("fetchDocuments", i, outcome)
        /\ failed' = (failed \/ ~IsOk(outcome))
        /\ staleInstall' = /\ Accepted(i, outcome)
                           /\ ev.op = "fetchDocuments"
                           /\ IsOk(ev.outcome)
                           /\ ev.n > i
        /\ IF Accepted(i, outcome)
           THEN /\ localDocuments' = SetLocalDocuments(localDocuments, docs)
                /\ lastFetchCount' = Len(docs)
                /\ currentChunk' = req.offset \div ChunkSize
                /\ hasMoreDocuments' = (Len(docs) = ChunkSize)
                /\ loadingMore' = FALSE
                /\ ChunkEffect(req.offset \div ChunkSize, rest, FALSE)
                /\ navGoal' = IF outcome = "ok" THEN navGoal ELSE NoGoal
                /\ lastPageGoal' = NoLastPageGoal
           ELSE /\ error' = "fetch"
                /\ loading' = FALSE
                /\ loadingMore' = FALSE
                /\ inflight' = rest
                /\ navGoal' = NoGoal
                /\ lastPageGoal' = NoLastPageGoal
                /\ UNCHANGED <<localDocuments, currentChunk, hasMoreDocuments,
                               lastFetchCount>>
        /\ UNCHANGED <<currentPage, pageSize, serverTotal, clicks>>

HandlePageChange(page) ==
    /\ ev' = Event("handlePageChange", page, "none")
    /\ IF PageInRange(page)
       THEN IF page = totalPages /\ hasMoreDocuments /\ ~loadingMore
            THEN /\ Len(inflight) < MaxInFlight
                 /\ loadingMore' = TRUE
                 /\ loading' = TRUE
                 /\ error' = "none"
                 /\ inflight' = Append(inflight,
                                   ChunkRequest(NextChunkOffset, "nav", Snapshot))
                 /\ currentPage' = 1
                 /\ navGoal' = IF inflight = <<>>
                               THEN [active |-> TRUE, chunk |-> currentChunk + 1]
                               ELSE NoGoal
                 /\ lastPageGoal' = NoLastPageGoal
                 /\ UNCHANGED <<localDocuments, currentChunk, hasMoreDocuments,
                                pageSize, serverTotal>>
            ELSE /\ currentPage' = page
                 /\ navGoal' = NoGoal
                 /\ lastPageGoal' = NoLastPageGoal
                 /\ UNCHANGED <<localDocuments, currentChunk, hasMoreDocuments,
                                loadingMore, loading, error, pageSize, inflight,
                                serverTotal>>
       ELSE /\ navGoal' = NoGoal
            /\ lastPageGoal' = NoLastPageGoal
            /\ UNCHANGED <<localDocuments, currentChunk, hasMoreDocuments,
                           loadingMore, loading, error, currentPage, pageSize,
                           inflight, serverTotal>>

\* a click on an enabled button of the pagination bar
PageChange ==
    /\ UNCHANGED <<uploadVars, relayVars, findingsVars>>
    /\ staleInstall' = FALSE
    /\ ControlsShown
    /\ clicks < MaxClicks
    /\ clicks' = clicks + 1
    /\ lastFetchCount' = lastFetchCount
    /\ failed' = FALSE
    /\ \E page \in OfferedPages : HandlePageChange(page)

\* (mutant) the current page survives a page-size change
HandlePageSizeChangeKeepingPage(newPageSize) ==
    /\ pageSize' = newPageSize
    /\ currentPage' = currentPage
    /\ ev' = Event("handlePageSizeChange", newPageSize, "none")
    /\ navGoal' = NoGoal
    /\ lastPageGoal' = NoLastPageGoal
    /\ UNCHANGED <<localDocuments, currentChunk, hasMoreDocuments, loadingMore,
                   loading, error, inflight, serverTotal>>

HandlePageSizeChange(newPageSize) ==
    /\ pageSize' = newPageSize
    /\ currentPage' = 1
    /\ ev' = Event("handlePageSizeChange", newPageSize, "none")
    /\ navGoal' = NoGoal
    /\ lastPageGoal' = NoLastPageGoal
    /\ UNCHANGED <<localDocuments, currentChunk, hasMoreDocuments, loadingMore,
                   loading, error, inflight, serverTotal>>

\* onChange of the "Items per page" select
PageSizeChange ==
    /\ UNCHANGED <<uploadVars, relayVars, findingsVars>>
    /\ staleInstall' = FALSE
    /\ ControlsShown
    /\ clicks < MaxClicks
    /\ clicks' = clicks + 1
    /\ lastFetchCount' = lastFetchCount
    /\ failed' = failed
    /\ \E newPageSize \in PageSizes \ {pageSize} : HandlePageSizeChange(newPageSize)

\* handleLastPage up to its first await
HandleLastPage ==
    /\ ~loadingMore
    /\ loadingMore' = TRUE
    /\ inflight' = Append(inflight, ProbeRequest(ProbeStart, pageSize, currentChunk))
    /\ ev' = Event("handleLastPage", 0, "none")
    /\ navGoal' = NoGoal
    /\ lastPageGoal' = IF inflight = <<>> THEN StartedLastPageGoal
                                          ELSE NoLastPageGoal
    /\ UNCHANGED <<localDocuments, currentChunk, hasMoreDocuments, loading, error,
                   currentPage, pageSize, serverTotal>>

LastPage ==
    /\ UNCHANGED <<uploadVars, relayVars, findingsVars>>
    /\ staleInstall' = FALSE
    /\ LastPageEnabled
    /\ Len(inflight) < MaxInFlight
    /\ clicks < MaxClicks
    /\ clicks' = clicks + 1
    /\ lastFetchCount' = lastFetchCount
    /\ failed' = FALSE
    /\ HandleLastPage

\* "Update the state with the last page documents" and the finally block
LastPageFinish(i, lastPageDocuments, offset) ==
    /\ localDocuments' = SetLocalDocuments(localDocuments, lastPageDocuments)
    /\ lastFetchCount' = Len(lastPageDocuments)
    /\ currentPage' = 1
    /\ currentChunk' = Floor(offset, ChunkSize)
    /\ loadingMore' = FALSE
    /\ ChunkEffect(Floor(offset, ChunkSize), Remove(inflight, i), loading)
    /\ UNCHANGED <<hasMoreDocuments, pageSize, serverTotal>>

\* (mutant) the catch block tries the current chunk's last records again
LastPageFailRetrying(i) ==
    /\ error' = "last"
    /\ loadingMore' = FALSE
    /\ inflight' = Replace(inflight, i,
                      FallbackRequest(inflight[i].pageSize, inflight[i].chunk))
    /\ UNCHANGED <<localDocuments, currentChunk, hasMoreDocuments, loading,
                   currentPage, pageSize, serverTotal, lastFetchCount>>

\* catch and finally of handleLastPage
LastPageFail(i) ==
    /\ error' = "last"
    /\ loadingMore' = FALSE
    /\ inflight' = Remove(inflight, i)
    /\ UNCHANGED <<localDocuments, currentChunk, hasMoreDocuments, loading,
                   currentPage, pageSize, serverTotal, lastFetchCount>>

\* one turn of the probe loop: the continuation after a probe's awaits
LastPageProbeDone(i, outcome) ==
    LET req == inflight[i]
        docs == DocumentsOf(outcome, serverTotal, req.offset, req.limit)
    IN  /\ req.kind = "probe"
        /\ ev' = Event("probe", i, outcome)
        /\ failed' = (failed \/ ~IsOk(outcome))
        /\ clicks' = clicks
        /\ navGoal' = NoGoal
        /\ lastPageGoal' =
               IF lastPageGoal.active /\ outcome = "ok"
               THEN [lastPageGoal EXCEPT
                        !.overshot = (Len(docs) = 0),
                        !.done = (Len(docs) > 0 /\ Len(docs) < req.pageSize)]
               ELSE NoLastPageGoal
        /\ IF ~IsOk(outcome)
           THEN LastPageFail(i)
           ELSE IF Len(docs) = 0
                THEN \* overshot: fall back to the current chunk's last records
                     /\ inflight' = Replace(inflight, i,
                                       FallbackRequest(req.pageSize, req.chunk))
                     /\ UNCHANGED <<localDocuments, currentChunk, hasMoreDocuments,
                                    loadingMore, loading, error, currentPage,
                                    pageSize, serverTotal, lastFetchCount>>
                ELSE IF Len(docs) < req.pageSize
                     THEN LastPageFinish(i, docs, req.offset)
                     ELSE \* a full page: try a larger offset
                          /\ inflight' = Replace(inflight, i, NextProbe(req))
                          /\ UNCHANGED <<localDocuments, currentChunk,
                                         hasMoreDocuments, loadingMore, loading,
                                         error, currentPage, pageSize, serverTotal,
                                         lastFetchCount>>

\* the continuation after the fallback request's awaits
LastPageFallbackDone(i, outcome) ==
    LET req == inflight[i]
        docs == DocumentsOf(outcome, serverTotal, req.offset, req.limit)
    IN  /\ req.kind = "fallback"
        /\ ev' = Event("fallback", i, outcome)
        /\ failed' = (failed \/ ~IsOk(outcome))
        /\ clicks' = clicks
        /\ navGoal' = NoGoal
        /\ lastPageGoal' = IF lastPageGoal.active /\ outcome = "ok"
                           THEN [lastPageGoal EXCEPT !.done = TRUE]
                           ELSE NoLastPageGoal
        /\ IF ~IsOk(outcome)
           THEN LastPageFail(i)
           ELSE LastPageFinish(i, docs, req.offset)

\* the backend's document list grows or shrinks
ServerChange ==
    /\ UNCHANGED <<uploadVars, relayVars, findingsVars>>
    /\ staleInstall' = FALSE
    /\ \E t \in TotalChoices \ {serverTotal} : serverTotal' = t
    /\ ev' = Event("serverChange", 0, "none")
    /\ failed' = failed
    /\ clicks' = clicks
    /\ lastFetchCount' = lastFetchCount
    /\ navGoal' = NoGoal
    /\ lastPageGoal' = NoLastPageGoal
    /\ UNCHANGED <<localDocuments, currentChunk, hasMoreDocuments, loadingMore,
                   loading, error, currentPage, pageSize, inflight>>

\* a response (or failure) reaches one of the pending listing operations
FetchDone ==
    /\ UNCHANGED <<uploadVars, relayVars, findingsVars>>
    /\ \E i \in DOMAIN inflight, o \in Outcomes : FetchDocumentsDone(i, o)

ProbeDone ==
    /\ UNCHANGED <<uploadVars, relayVars, findingsVars>>
    /\ staleInstall' = FALSE
    /\ \E i \in DOMAIN inflight, o \in Outcomes : LastPageProbeDone(i, o)

FallbackDone ==
    /\ UNCHANGED <<uploadVars, relayVars, findingsVars>>
    /\ staleInstall' = FALSE
    /\ \E i \in DOMAIN inflight, o \in Outcomes : LastPageFallbackDone(i, o)

Next ==
    \/ Refresh
    \/ FetchDone
    \/ PageChange
    \/ PageSizeChange
    \/ LastPage
    \/ ProbeDone
    \/ FallbackDone
    \/ ServerChange

----------------------------------------------------------------------------
\* UploadSection / Home

HandleFileChange(selectedFile_) ==
    /\ IF IsPdfSelection(selectedFile_)
       THEN /\ file' = selectedFile_
            /\ response' = NoResponse
       ELSE /\ file' = NoFile
            /\ response' = ValidationError
    /\ uev' = UploadEvent("handleFileChange", selectedFile_, "none")
    /\ UNCHANGED <<uploading, uploadInflight, processedFiles, selectedFile, received>>

\* onChange of the file input
SelectFile ==
    /\ UNCHANGED <<tableVars, relayVars, findingsVars>>
    /\ \E sel \in Selections : HandleFileChange(sel)

\* handleUpload up to its await: fetch('/api/proxy', {method: 'POST', body})
HandleUpload ==
    /\ file # NoFile
    /\ uploading' = TRUE
    /\ response' = NoResponse
    /\ uploadInflight' = Append(uploadInflight, file)
    /\ uev' = UploadEvent("handleUpload", file, "none")
    /\ UNCHANGED <<file, processedFiles, selectedFile, received>>

\* a click on the enabled submit button
Upload ==
    /\ UNCHANGED <<tableVars, relayVars, findingsVars>>
    /\ UploadButtonEnabled
    /\ Len(processedFiles) < MaxHistory
    /\ HandleUpload

\* (mutant) the new entry is put behind the earlier ones
HandleFileProcessedAppending(fileInfo) ==
    /\ processedFiles' = processedFiles \o <<fileInfo>>
    /\ selectedFile' = fileInfo

\* Home.handleFileProcessed
HandleFileProcessed(fileInfo) ==
    /\ processedFiles' = <<fileInfo>> \o processedFiles
    /\ selectedFile' = fileInfo

\* the continuation of handleUpload once the response body has been parsed
UploadResolved(i, reply) ==
    LET sent == uploadInflight[i]
        data == reply.body
        fileInfo == [id |-> Len(processedFiles) + 1, name |-> sent.name,
                     status |-> data.status, findings |-> data.findings,
                     documentId |-> data.document_id]
    IN  /\ response' = ShownResponse(reply)
        /\ received' = reply
        /\ HandleFileProcessed(fileInfo)
        /\ uploading' = FALSE
        /\ uploadInflight' = Remove(uploadInflight, i)
        /\ uev' = UploadEvent("uploadResolved", sent, data.status)
        /\ UNCHANGED file

\* fetch rejected or the body did not parse: catch and finally
UploadThrew(i) ==
    /\ response' = ThrownError
    /\ uploading' = FALSE
    /\ uploadInflight' = Remove(uploadInflight, i)
    /\ uev' = UploadEvent("uploadThrew", uploadInflight[i], "thrown")
    /\ UNCHANGED <<file, processedFiles, selectedFile, received>>

UploadDone ==
    /\ UNCHANGED <<tableVars, relayVars, findingsVars>>
    /\ \E i \in DOMAIN uploadInflight, reply \in UploadReplies : UploadResolved(i, reply)

UploadFailed ==
    /\ UNCHANGED <<tableVars, relayVars, findingsVars>>
    /\ \E i \in DOMAIN uploadInflight : UploadThrew(i)

NextUpload ==
    \/ SelectFile
    \/ Upload
    \/ UploadDone
    \/ UploadFailed

----------------------------------------------------------------------------
\* Relay endpoints: POST /api/proxy and GET /api/documents. Both handlers
\* have the same shape; the request body of POST /api/proxy is the multipart
\* form the endpoint is defined for.

\* a handler from its start to its first await of fetch, or to its early
\* return; url is the backend URL it computes
Receive(endpoint, url) ==
    LET id == Len(relayCalls) + 1
    IN  IF ~IsConfigured(backendUrl)
        THEN /\ relayCalls' = Append(relayCalls,
                     RelayCall(endpoint, backendUrl, "done", 500,
                               ConfigurationError, 0, NoBody, "none"))
             /\ backendRequests' = backendRequests
        ELSE IF ~IsAbsolute(backendUrl)
             THEN \* new URL(...) throws: the catch block answers
                  /\ relayCalls' = Append(relayCalls,
                          RelayCall(endpoint, backendUrl, "done", 500,
                                    FailureBody(endpoint, "url"), 0, NoBody, "url"))
                  /\ backendRequests' = backendRequests
             ELSE /\ relayCalls' = Append(relayCalls,
                          RelayCall(endpoint, backendUrl, "forwarding", 0,
                                    NoBody, 0, NoBody, "none"))
                  /\ backendRequests' = Append(backendRequests,
                          BackendRequest(id, BackendMethod(endpoint), url))

\* POST /api/proxy arrives
ProxyPost ==
    /\ UNCHANGED <<tableVars, uploadVars, findingsVars>>
    /\ Len(relayCalls) < MaxRelayCalls
    /\ Receive("proxy", ResolveUrl(BackendPath("proxy"), backendUrl))
    /\ UNCHANGED backendUrl

\* GET /api/documents arrives
DocumentsGet ==
    /\ UNCHANGED <<tableVars, uploadVars, findingsVars>>
    /\ Len(relayCalls) < MaxRelayCalls
    /\ \E q \in Queries :
           Receive("documents",
                   WithQuery(ResolveUrl(BackendPath("documents"), backendUrl),
                             ParamOr(q.offset, "0"), ParamOr(q.limit, "100")))
    /\ UNCHANGED backendUrl

\* const data = await response.json(); return NextResponse.json(data)
Answered(i, backendStatus, data) ==
    /\ relayCalls[i].state = "forwarding"
    /\ relayCalls' = [relayCalls EXCEPT ![i] =
           RelayCall(@.endpoint, @.env, "done", ReplyStatus(backendStatus),
                     data, backendStatus, data, "none")]

\* the backend answers a forwarded request with a JSON body
BackendAnswered ==
    /\ UNCHANGED <<tableVars, uploadVars, findingsVars>>
    /\ \E i \in DOMAIN relayCalls, st \in BackendStatuses, data \in BackendBodies :
           Answered(i, st, data)
    /\ UNCHANGED <<backendUrl, backendRequests>>

\* fetch rejected or response.json() threw: the catch block
Failed(i, failure) ==
    /\ relayCalls[i].state = "forwarding"
    /\ relayCalls' = [relayCalls EXCEPT ![i] =
           RelayCall(@.endpoint, @.env, "done", 500,
                     FailureBody(@.endpoint, failure), 0, NoBody, failure)]

BackendFailed ==
    /\ UNCHANGED <<tableVars, uploadVars, findingsVars>>
    /\ \E i \in DOMAIN relayCalls, failure \in Failures : Failed(i, failure)
    /\ UNCHANGED <<backendUrl, backendRequests>>

\* the server process is started with another BACKEND_URL
Configure ==
    /\ UNCHANGED <<tableVars, uploadVars, findingsVars>>
    /\ relayCalls = <<>>
    /\ \E base \in BackendUrls \ {backendUrl} : backendUrl' = base
    /\ UNCHANGED <<relayCalls, backendRequests>>

NextRelay ==
    \/ ProxyPost
    \/ DocumentsGet
    \/ BackendAnswered
    \/ BackendFailed
    \/ Configure

----------------------------------------------------------------------------
\* FindingsList: the "Types of sensitive data found" line of the summary

\* finding types a response may carry
FindingTypes == {"EMAIL", "email", "SSN"}

\* String.prototype.toLowerCase on the finding types
ToLowerCase(type) ==
    CASE type = "EMAIL" -> "email"
      [] type = "SSN" -> "ssn"
      [] OTHER -> type

\* acc[finding.type] = (acc[finding.type] || 0) + 1; the object keeps its
\* keys in insertion order
Tally(acc, type) ==
    IF \E k \in DOMAIN acc : acc[k].type = type
    THEN [k \in DOMAIN acc |->
             IF acc[k].type = type
             THEN [type |-> type, count |-> acc[k].count + 1]
             ELSE acc[k]]
    ELSE Append(acc, [type |-> type, count |-> 1])

\* findings.reduce(..., {})
RECURSIVE Reduce(_, _)
Reduce(list, acc) ==
    IF list = <<>> THEN acc ELSE Reduce(Tail(list), Tally(acc, Head(list)))

\* Object.entries(...).map(([type, count]) => `${type.toLowerCase()} (${count})`)
SummaryEntries(list) ==
    LET acc == Reduce(list, <<>>)
    IN  [k \in DOMAIN acc |->
            [type |-> ToLowerCase(acc[k].type), count |-> acc[k].count]]

\* the lists of findings of at most MaxFindings entries
FindingLists == UNION {[1..n -> FindingTypes] : n \in 0..MaxFindings}

\* FindingsList renders a response's findings; the summary block is
\* rendered for a non-empty list only
RenderFindings ==
    /\ UNCHANGED <<tableVars, uploadVars, relayVars>>
    /\ \E list \in FindingLists \ {findings} :
           /\ findings' = list
           /\ summary' = IF Len(list) > 0 THEN SummaryEntries(list) ELSE <<>>

NextFindings ==
    \/ RenderFindings

----------------------------------------------------------------------------
Spec == Init /\ [][Next]_vars

FindingsSpec == Init /\ [][NextFindings]_vars

\* The page shows the upload widget and the table side by side; they share
\* no state. ComponentSpec has the behaviours of the page in which one of the
\* two components is used and the other is left as it was mounted.
TableUntouched == clicks = 0 /\ ev.op = "mount"

UploadUntouched == uev.op = "mount"

ComponentNext ==
    \/ UploadUntouched /\ Refresh
    \/ UploadUntouched /\ FetchDone
    \/ UploadUntouched /\ PageChange
    \/ UploadUntouched /\ PageSizeChange
    \/ UploadUntouched /\ LastPage
    \/ UploadUntouched /\ ProbeDone
    \/ UploadUntouched /\ FallbackDone
    \/ UploadUntouched /\ ServerChange
    \/ TableUntouched /\ SelectFile
    \/ TableUntouched /\ Upload
    \/ TableUntouched /\ UploadDone
    \/ TableUntouched /\ UploadFailed

ComponentSpec == Init /\ [][ComponentNext]_vars

RelaySpec == Init /\ [][NextRelay]_vars

UploadSpec == Init /\ [][NextUpload]_vars

----------------------------------------------------------------------------
\* Properties of the windowing table

\* the table state a claim's frame condition speaks of
TableState == <<localDocuments, currentChunk, hasMoreDocuments, currentPage, pageSize>>

\* the step is the continuation of a chunk load (fetchDocuments)
ChunkLoadStep == ev'.op = "fetchDocuments"

\* ceil(k / p) stated on its own: the least m with m * p >= k
CeilOf(k, p) == CHOOSE m \in 0..k : m * p >= k /\ (m = 0 \/ (m - 1) * p < k)

\* C1: after a boundary navigation (Go to page(last page) with has_more) whose
\* chunk load and every listing request that followed from it succeeded, the
\* table caches chunk current_chunk_index+1, currentChunk has advanced by
\* one and currentPage is 1.
C1_BoundaryNavigationAdvances ==
    (navGoal.active /\ inflight = <<>>) =>
        /\ currentChunk = navGoal.chunk
        /\ currentPage = 1
        /\ localDocuments =
               ListDocuments(serverTotal, navGoal.chunk * ChunkSize, ChunkSize)

\* C2: every successful chunk load leaves currentPage = 1, whatever issued it.
C2_LoadResetsPage ==
    [][(ChunkLoadStep /\ IsOk(ev'.outcome)) => currentPage' = 1]_vars

\* C3: a failed chunk load issued by a user action leaves the cached chunk,
\* chunk index, has-more flag, current page and page size as they were
\* immediately before that user action, and sets the error banner.
C3_FailedLoadKeepsState ==
    [][(ChunkLoadStep /\ ~IsOk(ev'.outcome) /\ inflight[ev'.n].snap.taken) =>
        LET snap == inflight[ev'.n].snap
        IN  /\ FirstOf(localDocuments') = snap.first
            /\ Len(localDocuments') = snap.count
            /\ currentChunk' = snap.chunk
            /\ hasMoreDocuments' = snap.hasMore
            /\ currentPage' = snap.page
            /\ pageSize' = snap.pageSize
            /\ error' # "none"]_vars

\* C4: a successful chunk load leaves exactly the records of its response in
\* the cache (at most 100), none kept from the chunk cached before.
C4_LoadReplacesCache ==
    [][(ChunkLoadStep /\ IsOk(ev'.outcome)) =>
        LET req == inflight[ev'.n]
            returned == DocumentsOf(ev'.outcome, serverTotal, req.offset, req.limit)
        IN  /\ localDocuments' = returned
            /\ Len(localDocuments') <= ChunkSize]_vars

\* C4 witness: chunk 1 has replaced a cached chunk 0
C4_Witness ==
    /\ ev.op = "fetchDocuments"
    /\ ev.outcome = "ok"
    /\ currentChunk = 1
    /\ Len(localDocuments) = ChunkSize
    /\ localDocuments[1] = ChunkSize + 1

\* C5: once a listing fetch has succeeded, has_more_chunks is true iff the
\* most recent successful listing fetch (chunk load or last-page fetch)
\* returned exactly 100 records.
C5_HasMoreIffFullFetch ==
    lastFetchCount # -1 => (hasMoreDocuments <=> lastFetchCount = ChunkSize)

\* C6: every chunk request uses limit 100 and an offset that is a
\* non-negative multiple of 100, whatever the page size and the history.
C6_ChunkRequestsAligned ==
    \A i \in DOMAIN inflight :
        inflight[i].kind = "chunk" =>
            /\ inflight[i].limit = 100
            /\ inflight[i].offset >= 0
            /\ inflight[i].offset % 100 = 0

\* C6 witness: the boundary load of chunk 1 is in flight under page size 25
C6_Witness ==
    \E i \in DOMAIN inflight :
        /\ inflight[i].kind = "chunk"
        /\ inflight[i].by = "nav"
        /\ inflight[i].offset = 100
        /\ pageSize = 25

\* C7: Change page size sets currentPage to 1, leaves the cached chunk, the
\* chunk index and the has-more flag alone and issues no listing request.
C7_PageSizeChangeFrame ==
    [][ev'.op = "handlePageSizeChange" =>
        /\ currentPage' = 1
        /\ pageSize' = ev'.n
        /\ UNCHANGED <<localDocuments, currentChunk, hasMoreDocuments, inflight>>]_vars

\* C7 witness: the page size was changed over a full chunk while a last-page
\* probe was pending
C7_Witness ==
    /\ ev.op = "handlePageSizeChange"
    /\ pageSize = 25
    /\ currentPage = 1
    /\ Len(localDocuments) = ChunkSize
    /\ inflight # <<>>

\* C8: Go to page(n) with n < 1 or n > ceil(len(cached)/page_size) changes
\* no state variable and issues no listing request.
C8_OutOfRangePageIsNoOp ==
    [][(ev'.op = "handlePageChange"
        /\ (ev'.n < 1 \/ ev'.n > CeilOf(Len(localDocuments), pageSize))) =>
        UNCHANGED <<TableState, loadingMore, loading, error, inflight>>]_vars

\* C8 witness: the "next" button passed a page beyond the last one
C8_Witness ==
    /\ ev.op = "handlePageChange"
    /\ ev.n > CeilOf(Len(localDocuments), pageSize)
    /\ ev.n = currentPage + 1

\* the records of pages 1..n in display order
RECURSIVE PagesUpTo(_)
PagesUpTo(n) == IF n = 0 THEN <<>> ELSE PagesUpTo(n - 1) \o PageDocuments(n)

\* C9: pages 1..ceil(k/p) show every cached record exactly once, page n
\* showing records (n-1)*p+1 .. min(n*p, k), and the rendered table shows the
\* pagination controls iff ceil(k/p) > 1.
C9_PagesPartitionCache ==
    LET k == Len(localDocuments)
        p == pageSize
        pages == CeilOf(k, p)
    IN  /\ totalPages = pages
        /\ \A n \in 1..pages :
               PageDocuments(n) = SubSeq(localDocuments, (n - 1) * p + 1, Min(n * p, k))
        /\ PagesUpTo(pages) = localDocuments
        /\ View = "table" => (ControlsShown <=> pages > 1)

\* C9 witness: 8 records under page size 5, the short second page displayed
C9_Witness ==
    /\ View = "table"
    /\ Len(localDocuments) = 8
    /\ pageSize = 5
    /\ currentPage = 2
    /\ currentPageDocuments = <<6, 7, 8>>

\* the probe requests among the pending operations
Probes(pending) == {k \in DOMAIN pending : pending[k].kind = "probe"}

\* the number of records the backend's answer to a listing request holds
ReturnedCount(req, outcome) ==
    IF outcome = "ok" THEN Max(0, Min(req.limit, serverTotal - req.offset)) ELSE 0

\* C20: Go to last page sends its probes in the order offset 1000, 1100,
\* 1200, ..., each with the page size of the moment the operation started
\* as limit (one of 5, 10, 25, 50), and sends no probe after the first
\* response that holds fewer records than that page size (or after a failed
\* one); nothing else sends a probe.
C20_ProbeOrder ==
    [][/\ ev'.op = "handleLastPage" =>
             /\ Len(inflight') = Len(inflight) + 1
             /\ inflight'[Len(inflight')].kind = "probe"
             /\ inflight'[Len(inflight')].offset = 1000
             /\ inflight'[Len(inflight')].limit = pageSize
             /\ pageSize \in {5, 10, 25, 50}
             /\ SubSeq(inflight', 1, Len(inflight)) = inflight
       /\ (ev'.op = "probe" /\ inflight' # inflight) =>
             LET req == inflight[ev'.n]
                 full == /\ IsOk(ev'.outcome)
                         /\ ReturnedCount(req, ev'.outcome) >= req.limit
             IN  IF full
                 THEN /\ Len(inflight') = Len(inflight)
                      /\ inflight'[ev'.n].kind = "probe"
                      /\ inflight'[ev'.n].offset = req.offset + 100
                      /\ inflight'[ev'.n].limit = req.limit
                      /\ \A k \in DOMAIN inflight \ {ev'.n} : inflight'[k] = inflight[k]
                 ELSE Cardinality(Probes(inflight')) = Cardinality(Probes(inflight)) - 1
       /\ ev'.op \notin {"handleLastPage", "probe"} =>
             Cardinality(Probes(inflight')) = Cardinality(Probes(inflight))
       /\ \A k \in Probes(inflight') :
             /\ inflight'[k].offset >= 1000
             /\ inflight'[k].offset % 100 = 0
             /\ inflight'[k].limit > 0]_vars

\* C20 witness: the second probe, at offset 1100, is pending with the limit 5
\* of the operation's start although the page size has been changed since
C20_Witness ==
    /\ ev.op = "probe"
    /\ pageSize = 25
    /\ \E k \in Probes(inflight) :
           /\ inflight[k].offset = 1100
           /\ inflight[k].limit = 5

----------------------------------------------------------------------------
\* Properties of the upload widget

\* C10: a selection that is not a PDF (an empty selection included) leaves
\* no file retained and the validation error as response, in any state, and
\* sends nothing.
C10_NonPdfRejected ==
    [][(uev'.op = "handleFileChange" /\ uev'.sel.type # "application/pdf") =>
        /\ file' = NoFile
        /\ response' = ValidationError
        /\ uploadInflight' = uploadInflight]_vars

\* C10 witness: a text file was picked while a PDF was retained and an
\* upload was pending
C10_Witness ==
    /\ uev.op = "handleFileChange"
    /\ uev.sel.type = "text/plain"
    /\ file = NoFile
    /\ response = ValidationError
    /\ uploadInflight # <<>>

\* C11: at most one upload request of the widget is in flight at any time,
\* whatever the user selects and clicks; the uploading flag is set exactly
\* while it is.
C11_OneUploadInFlight ==
    /\ Len(uploadInflight) <= 1
    /\ uploading <=> uploadInflight # <<>>

\* C11 witness: an upload is pending and another PDF has been selected since
C11_Witness ==
    /\ Len(uploadInflight) = 1
    /\ file # NoFile
    /\ file # uploadInflight[1]
    /\ ~UploadButtonEnabled

\* C12: once an upload reply's body has been read, the error panel is shown
\* iff the body's status field is "error", whatever the reply's HTTP status;
\* every other body gets the success panel.
C12_PanelFollowsBodyStatus ==
    [][uev'.op = "uploadResolved" =>
        /\ response' = received'.body
        /\ Panel(response') = "error" <=> received'.body.status = "error"
        /\ Panel(response') = "success" <=> received'.body.status # "error"]_vars

\* C12 witness: a reply with HTTP status 500 is shown in the success panel
C12_Witness ==
    /\ uev.op = "uploadResolved"
    /\ received.http = 500
    /\ received.body.status # "error"
    /\ Panel(response) = "success"

\* the entries are ordered newest first (ids are handed out in creation order)
NewestFirst(history) ==
    \A i, j \in DOMAIN history : i < j => history[i].id > history[j].id

\* C13: an upload that succeeds puts one new entry, for the uploaded file, at
\* the head of the session history with the earlier entries behind it in
\* their previous order, and selects it; the history is ordered newest-first.
C13_SuccessPrependsAndSelects ==
    [][(uev'.op = "uploadResolved" /\ uev'.outcome = "success") =>
        /\ Len(processedFiles') = Len(processedFiles) + 1
        /\ Tail(processedFiles') = processedFiles
        /\ Head(processedFiles').name = uev'.sel.name
        /\ Head(processedFiles').status = "success"
        /\ \A k \in DOMAIN processedFiles : processedFiles[k] # Head(processedFiles')
        /\ selectedFile' = Head(processedFiles')
        /\ NewestFirst(processedFiles')]_vars

\* C13 witness: a second successful upload heads a history of two entries
C13_Witness ==
    /\ uev.op = "uploadResolved"
    /\ uev.outcome = "success"
    /\ Len(processedFiles) = 2
    /\ processedFiles[1].name = "b.pdf"
    /\ processedFiles[2].name = "a.pdf"
    /\ selectedFile = processedFiles[1]

----------------------------------------------------------------------------
\* Properties of the relay endpoints

\* the backend requests issued on behalf of call i
RequestsOf(i) == {k \in DOMAIN backendRequests : backendRequests[k].call = i}

\* the backend answered call i with a body that parsed as JSON
WasAnswered(i) ==
    /\ relayCalls[i].state = "done"
    /\ relayCalls[i].failure = "none"
    /\ IsConfigured(relayCalls[i].env)

\* {BACKEND_URL}/api/v1/upload
UploadAddress(base) == Url(base.origin, base.path \o "/api/v1/upload", "")

\* C14: with BACKEND_URL configured and the backend answering with JSON, a
\* POST /api/proxy has caused exactly one backend request, a POST addressed
\* to {BACKEND_URL}/api/v1/upload, and its response body is the backend's.
C14_UploadForwardedVerbatim ==
    \A i \in DOMAIN relayCalls :
        (relayCalls[i].endpoint = "proxy" /\ WasAnswered(i)) =>
            /\ Cardinality(RequestsOf(i)) = 1
            /\ \A k \in RequestsOf(i) :
                   /\ backendRequests[k].method = "POST"
                   /\ backendRequests[k].url = UploadAddress(relayCalls[i].env)
            /\ relayCalls[i].body = relayCalls[i].backendBody

C16_FailuresGiveProcessingEnvelope ==
    \A i \in DOMAIN relayCalls :
        relayCalls[i].failure \in Failures =>
            /\ relayCalls[i].status = 500
            /\ relayCalls[i].body = Json("Error processing request", "")

\* C16 (amended): a network or JSON-parse failure while forwarding is
\* answered with status 500 and a fixed envelope, {error: "Error processing
\* request"} from POST /api/proxy and {error: "Error fetching documents"}
\* from GET /api/documents, the same whatever the failure was.
C16_FailuresGiveGenericEnvelope ==
    \A i \in DOMAIN relayCalls :
        relayCalls[i].failure \in Failures =>
            /\ relayCalls[i].status = 500
            /\ relayCalls[i].endpoint = "proxy" =>
                   relayCalls[i].body = Json("Error processing request", "")
            /\ relayCalls[i].endpoint = "documents" =>
                   relayCalls[i].body = Json("Error fetching documents", "")
            /\ \A j \in DOMAIN relayCalls :
                   (relayCalls[j].failure \in Failures
                    /\ relayCalls[j].endpoint = relayCalls[i].endpoint) =>
                       relayCalls[j].body = relayCalls[i].body

\* C16 witness: a listing call failed on a body that is not JSON and an
\* upload call on a rejected fetch
C16_Witness ==
    \E i, j \in DOMAIN relayCalls :
        /\ relayCalls[i].endpoint = "documents"
        /\ relayCalls[i].failure = "parse"
        /\ relayCalls[j].endpoint = "proxy"
        /\ relayCalls[j].failure = "network"
        /\ relayCalls[i].status = 500
        /\ relayCalls[j].status = 500

\* C17: the upload relay answers 200 whenever the backend's body parsed as
\* JSON, whatever status the backend sent, and never answers with a status
\* other than 200 or 500.
C17_UploadRelayStatus ==
    \A i \in DOMAIN relayCalls :
        (relayCalls[i].endpoint = "proxy" /\ relayCalls[i].state = "done") =>
            /\ WasAnswered(i) => relayCalls[i].status = 200
            /\ relayCalls[i].status \in {200, 500}
            /\ relayCalls[i].status = 500 => ~WasAnswered(i)

\* C17 witness: the backend answered an upload with status 500 and a JSON
\* body, and the relay answered 200
C17_Witness ==
    \E i \in DOMAIN relayCalls :
        /\ relayCalls[i].endpoint = "proxy"
        /\ WasAnswered(i)
        /\ relayCalls[i].backendStatus = 500
        /\ relayCalls[i].status = 200

----------------------------------------------------------------------------
\* Properties of the findings summary

\* C18: the summary has exactly one entry per distinct lower-cased finding
\* type, and an entry counts all the findings whose type lower-cases to it.
C18_SummaryPerLowerCasedType ==
    LET lowered == {ToLowerCase(findings[k]) : k \in DOMAIN findings}
    IN  /\ Len(summary) = Cardinality(lowered)
        /\ \A t \in lowered :
               \E k \in DOMAIN summary :
                   /\ summary[k].type = t
                   /\ summary[k].count =
                          Cardinality({j \in DOMAIN findings :
                                          ToLowerCase(findings[j]) = t})

----------------------------------------------------------------------------
\* Properties of both components

\* the continuations of a listing request: they run when its response (or
\* failure) arrives, not on a user action
ListingContinuations == {"fetchDocuments", "probe", "fallback"}

UploadContinuations == {"uploadResolved", "uploadThrew"}

\* the step is a continuation of a listing request and sends no request
\* (each continuation takes its own request off the pending list)
ListingContinuationSendsNothing == Len(inflight') = Len(inflight) - 1

----------------------------------------------------------------------------
\* Properties of "Go to last page"

\* the last records, at most a page of them, of the chunk that was cached when
\* the operation started
LastRecordsOf(goal) ==
    LET n == Min(goal.pageSize, goal.count)
    IN  [k \in 1..n |-> goal.first + goal.count - n + k - 1]

\* C21: when a probe of "Go to last page" returns zero records (overshoot), the
\* operation ends with the cache holding the last page_size records of the
\* chunk that was cached when it started (all of them if there were fewer)
C21_OvershootFallsBackToCachedChunk ==
    (lastPageGoal.done /\ lastPageGoal.overshot) =>
        localDocuments = LastRecordsOf(lastPageGoal)

\* C30: a "Go to last page" that completes without a failing request, against
\* a non-empty server list that did not change meanwhile, leaves a non-empty
\* cache
C30_LastPageLeavesRecords ==
    (lastPageGoal.done /\ lastPageGoal.total > 0) => localDocuments # <<>>

\* a "Go to last page" operation is awaiting a response
LastPagePending ==
    \E i \in DOMAIN inflight : inflight[i].kind \in {"probe", "fallback"}

\* the number of "Go to last page" operations awaiting a response
LastPageCount ==
    Cardinality({i \in DOMAIN inflight : inflight[i].kind \in {"probe", "fallback"}})

\* the table during the first MaxFairClicks user actions
FairNext ==
    \/ (clicks < MaxFairClicks /\ Refresh)
    \/ FetchDone
    \/ (clicks < MaxFairClicks /\ PageChange)
    \/ (clicks < MaxFairClicks /\ PageSizeChange)
    \/ (clicks < MaxFairClicks /\ LastPage)
    \/ ProbeDone
    \/ FallbackDone
    \/ ServerChange

\* every request of a "Go to last page" operation resolves or fails
FairSpec ==
    Init /\ [][FairNext]_vars /\ WF_vars(ProbeDone) /\ WF_vars(FallbackDone)

\* C22: "Go to last page" terminates when each of its requests resolves or
\* fails: a pending operation always comes to its end (so it issues finitely
\* many requests), and the step that ends it leaves loadingMore false
C22_LastPageTerminates ==
    /\ LastPagePending ~> ~LastPagePending
    /\ [][LastPageCount' < LastPageCount => ~loadingMore']_vars

\* an operation has ended after two probes and the fallback request
C22_Witness ==
    /\ lastPageGoal.done
    /\ lastPageGoal.overshot
    /\ lastPageGoal.total > ProbeStart
    /\ ~LastPagePending
    /\ ~loadingMore

----------------------------------------------------------------------------
\* The pagination bar

\* the table showing page currentPage of a first chunk of n records, at the
\* initial page size: every pair of a page count and a page inside it
PagerInit ==
    /\ \E n \in 1..ChunkSize :
           /\ localDocuments = [k \in 1..n |-> k]
           /\ serverTotal = n
           /\ lastFetchCount = n
           /\ hasMoreDocuments = (n = ChunkSize)
           /\ currentPage \in 1..Ceil(n, InitialPageSize)
    /\ currentChunk = 0
    /\ loadingMore = FALSE
    /\ loading = FALSE
    /\ error = "none"
    /\ pageSize = InitialPageSize
    /\ inflight = <<>>
    /\ ev = Event("mount", 0, "none")
    /\ navGoal = NoGoal
    /\ lastPageGoal = NoLastPageGoal
    /\ staleInstall = FALSE
    /\ clicks = 0
    /\ failed = FALSE
    /\ file = NoFile
    /\ uploading = FALSE
    /\ response = NoResponse
    /\ uploadInflight = <<>>
    /\ processedFiles = <<>>
    /\ selectedFile = NoEntry
    /\ uev = UploadEvent("mount", NoFile, "none")
    /\ received = NoReply
    /\ backendUrl = ExampleUrl
    /\ relayCalls = <<>>
    /\ backendRequests = <<>>
    /\ findings = <<>>
    /\ summary = <<>>

\* clicks on the pagination bar and on the page-size select
PagerNext ==
    \/ PageChange
    \/ PageSizeChange

PagerSpec == PagerInit /\ [][PagerNext]_vars

\* the pages a .. b in order
Run(a, b) == [k \in 1..(b - a + 1) |-> a + k - 1]

\* the list the claim describes for page c of n pages
PageNumbersScheme(c, n) ==
    IF n <= maxVisiblePages THEN Run(1, n)
    ELSE IF c <= 3 THEN Run(1, 4) \o <<Ellipsis, n>>
    ELSE IF c >= n - 2 THEN <<1, Ellipsis>> \o Run(n - 3, n)
    ELSE <<1, Ellipsis>> \o Run(c - 1, c + 1) \o <<Ellipsis, n>>

\* C23: for every current page inside 1..totalPages the pagination bar lists
\* the pages by the ellipsis scheme, the list contains the current page, its
\* numbers are strictly increasing, and every ellipsis stands for at least one
\* omitted page
C23_PageNumbers ==
    LET pages == getPageNumbers
    IN  (1 <= currentPage /\ currentPage <= totalPages) =>
            /\ pages = PageNumbersScheme(currentPage, totalPages)
            /\ \E i \in DOMAIN pages : pages[i] = currentPage
            /\ \A i, j \in DOMAIN pages :
                   (i < j /\ pages[i] # Ellipsis /\ pages[j] # Ellipsis)
                       => pages[i] < pages[j]
            /\ \A i \in DOMAIN pages :
                   pages[i] = Ellipsis =>
                       /\ 1 < i
                       /\ i < Len(pages)
                       /\ pages[i - 1] # Ellipsis
                       /\ pages[i + 1] # Ellipsis
                       /\ pages[i + 1] - pages[i - 1] >= 2

\* page 4 of 7 reached by a click: both ellipses stand for a single page
C23_Witness ==
    /\ ev.op = "handlePageChange"
    /\ totalPages = 7
    /\ currentPage = 4
    /\ getPageNumbers = <<1, Ellipsis, 3, 4, 5, Ellipsis, 7>>

----------------------------------------------------------------------------
\* Responses that arrive out of order

\* the records the response to request req holds
ReturnedTo(req, outcome) ==
    DocumentsOf(outcome, serverTotal, req.offset, req.limit)

\* the continuation of request req installs its response
Installs(req, outcome) ==
    /\ IsOk(outcome)
    /\ req.kind = "probe" =>
           /\ Len(ReturnedTo(req, outcome)) > 0
           /\ Len(ReturnedTo(req, outcome)) < req.pageSize

\* C24: listing requests are neither cancelled nor guarded against staleness:
\* no step removes a pending request other than the one whose response it
\* handles, and a response is installed whatever the position of its request
\* among the pending ones, so of two requests in flight the response that
\* resolves last determines the cache and the chunk index
C24_LastResponseWins ==
    [][/\ ev'.op \in {"refresh", "handlePageChange", "handlePageSizeChange",
                      "handleLastPage", "serverChange"}
           => SubSeq(inflight', 1, Len(inflight)) = inflight
       /\ \A i \in DOMAIN inflight :
              (/\ ev'.op \in {"fetchDocuments", "probe", "fallback"}
               /\ ev'.op = "fetchDocuments" <=> inflight[i].kind = "chunk"
               /\ ev'.op = "probe" <=> inflight[i].kind = "probe"
               /\ ev'.n = i)
                  => /\ \A j \in DOMAIN inflight \ {i} :
                            \E k \in DOMAIN inflight' : inflight'[k] = inflight[j]
                     /\ Installs(inflight[i], ev'.outcome) =>
                            /\ localDocuments' = ReturnedTo(inflight[i], ev'.outcome)
                            /\ currentChunk' = Floor(inflight[i].offset, ChunkSize)
      ]_vars

\* two chunk requests were in flight; the response to the later one was
\* installed first, and the response to the earlier one (a load of chunk 1)
\* has now replaced it
C24_Witness ==
    /\ staleInstall
    /\ ev.op = "fetchDocuments"
    /\ currentChunk = 1
    /\ FirstOf(localDocuments) = ChunkSize + 1

----------------------------------------------------------------------------
\* The current page and the cached chunk

\* C25: whenever no listing request is in flight and the cache is non-empty,
\* the current page lies inside the cached chunk:
\* 1 <= current_page <= ceil(len(cached_documents) / page_size)
C25_PageInsideCache ==
    (inflight = <<>> /\ localDocuments # <<>>) =>
        /\ 1 <= currentPage
        /\ currentPage <= Ceil(Len(localDocuments), pageSize)

----------------------------------------------------------------------------
\* Operations started while a probe is pending

\* a request of a "Go to last page" probe loop is awaiting its response
ProbePending == \E i \in DOMAIN inflight : inflight[i].kind = "probe"

\* C26: while a "Go to last page" probe is in flight the table starts no other
\* listing operation: no second probe, and no chunk load by Refresh or by a
\* boundary navigation
C26_NothingStartsDuringProbe ==
    [][(ProbePending /\ ev'.op \in {"refresh", "handlePageChange", "handleLastPage"})
           => inflight' = inflight]_vars

----------------------------------------------------------------------------
\* Viewing the cached chunk

\* C27: every record of the cached chunk can be viewed: "Go to page" of the
\* page that holds it (any page inside 1..totalPages, the last page of a full
\* chunk included) leads to a state in which the table shows that page while
\* the same chunk is still cached
C27_EveryPageCanBeViewed ==
    [][(ev'.op = "handlePageChange" /\ PageInRange(ev'.n))
           => /\ View' = "table"
              /\ localDocuments' = localDocuments
              /\ currentPage' = ev'.n]_vars

----------------------------------------------------------------------------
\* Uploads that fail

\* C28: when the upload relay answers with its own error envelope (HTTP 500,
\* a body with an error field and no status field), the widget shows the error
\* panel, never the success panel
C28_RelayEnvelopeShowsError ==
    (/\ uev.op = "uploadResolved"
     /\ received = [http |-> 500, body |-> RelayEnvelope])
        => Panel(response) = "error"

\* the upload step ended in failure: the body read has a status other than
\* "success" (the backend's error body, the relay's envelope), or the request
\* threw
UploadEndedFailed(event) ==
    \/ event.op = "uploadResolved" /\ event.outcome # "success"
    \/ event.op = "uploadThrew"

\* C29: an upload that ends in failure adds no entry to the session history
\* and leaves the selected entry as it was
C29_FailedUploadLeavesHistory ==
    [][UploadEndedFailed(uev')
           => /\ processedFiles' = processedFiles
              /\ selectedFile' = selectedFile]_vars

====
